---------------------------- MODULE Spec2Model ----------------------------
(***************************************************************************)
(* NgimuReceive: reception of NGIMU messages (NgimuReceive.c/.h).          *)
(*                                                                         *)
(* The module keeps four callback pointers and one SLIP decoder.  Bytes    *)
(* of a serial stream go to the decoder, which hands every decoded packet  *)
(* to ProcessPacket; a UDP datagram is processed as a packet directly.     *)
(* Every message of a packet goes through ProcessMessage, ProcessAddress   *)
(* and one of ProcessSensors, ProcessQuaternion, ProcessEuler.             *)
(*                                                                         *)
(* The OSC99 library (OscSlipDecoder, OscPacket, OscMessage, OscAddress,   *)
(* OscError) is not part of NgimuReceive.c; its functions are modelled by  *)
(* their contract.  Granularity of a stream: one symbol is one SLIP byte   *)
(* (END, ESC, ESC_END, ESC_ESC) or one whole OSC message together with the *)
(* time tag the packet parser associates with it; the contents of a packet *)
(* are a sequence of such symbols.  A SLIP byte value found in the         *)
(* contents of a packet is not an OSC message: the parser rejects it.      *)
(***************************************************************************)
EXTENDS Integers, Sequences, FiniteSets, TLC

VARIABLES
    receiveErrorCallback,   \* static void (*receiveErrorCallback)(...)
    sensorsCallback,        \* static void (*sensorsCallback)(...)
    quaternionCallback,     \* static void (*quaternionCallback)(...)
    eulerCallback,          \* static void (*eulerCallback)(...)
    oscSlipDecoder,         \* static OscSlipDecoder oscSlipDecoder
    lastCall,               \* observation: the most recent call of the API
    udpHistory,             \* observation: the latest datagram since the last Set call
    registered,             \* observation: the argument of the latest Set call per slot
    replaced,               \* observation: slots whose latest Set call replaced a function
    badStream               \* observation: the bytes fed since the latest call of another
                            \* function have caused an error

vars == <<receiveErrorCallback, sensorsCallback, quaternionCallback,
          eulerCallback, oscSlipDecoder, lastCall, udpHistory, registered, replaced,
          badStream>>

callbackVars == <<receiveErrorCallback, sensorsCallback, quaternionCallback, eulerCallback>>

----------------------------------------------------------------------------
(* Bounds of the model *)

\* Size of the SLIP decoder's buffer, in symbols (OSC_SLIP_DECODER_BUFFER_SIZE).
DecoderBufferSize == 4
\* Longest sequence of symbols drawn freely for a datagram.
MaxPacketLength == 3
\* Time tags are 1..MaxTimeTag.
MaxTimeTag == 2

----------------------------------------------------------------------------
(* Values *)

NULL == "NULL"

\* Two distinct functions a caller may register in each slot.
CallbackFunctions == {"A", "B"}

OscErrorNone == "OscErrorNone"
OscErrorNoArgumentsAvailable == "OscErrorNoArgumentsAvailable"
OscErrorUnexpectedArgumentType == "OscErrorUnexpectedArgumentType"
OscErrorContentsEmpty == "OscErrorContentsEmpty"
OscErrorInvalidContents == "OscErrorInvalidContents"
OscErrorEncodedSlipPacketTooLong == "OscErrorEncodedSlipPacketTooLong"
OscErrorUnexpectedByteAfterSlipEsc == "OscErrorUnexpectedByteAfterSlipEsc"
OscErrorCallbackFunctionUndefined == "OscErrorCallbackFunctionUndefined"

\* The text OscErrorGetMessage returns for an error code.
OscErrorGetMessage(oscError) ==
    [text |-> CASE oscError = OscErrorNoArgumentsAvailable -> "No arguments available."
                [] oscError = OscErrorUnexpectedArgumentType -> "Unexpected argument type."
                [] oscError = OscErrorContentsEmpty -> "Contents empty."
                [] oscError = OscErrorInvalidContents -> "Invalid contents."
                [] oscError = OscErrorEncodedSlipPacketTooLong -> "Encoded SLIP packet too long."
                [] oscError = OscErrorUnexpectedByteAfterSlipEsc -> "Unexpected byte after SLIP ESC."
                [] oscError = OscErrorCallbackFunctionUndefined -> "Callback function undefined."
                [] OTHER -> "Unknown error.",
     address |-> <<>>]

\* SLIP byte values.
SlipByte(name) == [kind |-> "slip", value |-> name]
SLIP_END == SlipByte("END")
SLIP_ESC == SlipByte("ESC")
SLIP_ESC_END == SlipByte("ESC_END")
SLIP_ESC_ESC == SlipByte("ESC_ESC")

\* Arguments of an OSC message: a float32, or a string (not convertible to float32).
Float32(v) == [type |-> "f", value |-> v]
OscString(v) == [type |-> "s", value |-> v]

\* An OSC message as the packet parser hands it to ProcessMessage, with the
\* time tag passed along with it (that of the bundle the message is in).
\* ProcessSensors, ProcessQuaternion and ProcessEuler read *oscTimeTag without
\* a test: the messages of the model all come with a time tag.
OscMessage(timeTag, address, arguments) ==
    [kind |-> "message", timeTag |-> timeTag, oscAddressPattern |-> address,
     arguments |-> arguments]

\* Addresses, as character sequences.
AddressSensors == <<"/", "s", "e", "n", "s", "o", "r", "s">>
AddressQuaternion == <<"/", "q", "u", "a", "t", "e", "r", "n", "i", "o", "n">>
AddressEuler == <<"/", "e", "u", "l", "e", "r">>
AddressBattery == <<"/", "b", "a", "t", "t", "e", "r", "y">>
AddressAny == <<"/", "*">>
AddressQuestionEuler == <<"/", "?", "u", "l", "e", "r">>

\* n float32 arguments with the distinct values base+1 .. base+n.
Floats(n, base) == [i \in 1..n |-> Float32(base + i)]

----------------------------------------------------------------------------
(* OSC99 library functions used by NgimuReceive.c *)

\* OscAddressMatch: an address pattern against an address; '?' is any one
\* character and '*' any run of characters, neither crossing a '/'.
RECURSIVE OscAddressMatch(_, _)
OscAddressMatch(oscAddressPattern, oscAddress) ==
    IF oscAddressPattern = <<>> THEN oscAddress = <<>>
    ELSE IF Head(oscAddressPattern) = "*"
    THEN \/ OscAddressMatch(Tail(oscAddressPattern), oscAddress)
         \/ /\ oscAddress # <<>>
            /\ Head(oscAddress) # "/"
            /\ OscAddressMatch(oscAddressPattern, Tail(oscAddress))
    ELSE /\ oscAddress # <<>>
         /\ \/ Head(oscAddressPattern) = "?" /\ Head(oscAddress) # "/"
            \/ Head(oscAddressPattern) = Head(oscAddress)
         /\ OscAddressMatch(Tail(oscAddressPattern), Tail(oscAddress))

\* OscMessageGetArgumentAsFloat32: the next argument of the message, read at
\* argumentIndex (the message's read position, counted from 0); the position
\* moves on only when the argument is read.
OscMessageGetArgumentAsFloat32(oscMessage, argumentIndex) ==
    IF argumentIndex >= Len(oscMessage.arguments)
    THEN [oscError |-> OscErrorNoArgumentsAvailable, argumentIndex |-> argumentIndex]
    ELSE IF oscMessage.arguments[argumentIndex + 1].type # "f"
    THEN [oscError |-> OscErrorUnexpectedArgumentType, argumentIndex |-> argumentIndex]
    ELSE [oscError |-> OscErrorNone, argumentIndex |-> argumentIndex + 1,
          value |-> oscMessage.arguments[argumentIndex + 1].value]

----------------------------------------------------------------------------
(* NgimuReceive.c: the extractors, the router and the message callback.   *)
(* A function's effect is the sequence of callback invocations it makes;  *)
(* one that returns an OscError returns [oscError, calls].                *)

\* One invocation of a registered callback: the slot, the function that was
\* called, its argument, and the message that was being processed.
Invoke(callback, fn, arg, oscMessage) ==
    [callback |-> callback, fn |-> fn, arg |-> arg, message |-> oscMessage]

Return(oscError, calls) == [oscError |-> oscError, calls |-> calls]

\* The return of OscErrorNone, with the read position the message is left at:
\* the number of arguments that have been pulled from it.
ReturnAt(oscError, calls, argumentIndex) ==
    [oscError |-> oscError, calls |-> calls, argumentIndex |-> argumentIndex]

NoMessage == [kind |-> "none"]

\* ProcessSensors with the tenth argument read into magnetometerZ and the
\* ninth into barometer.
MutantProcessSensors(oscTimeTag, oscMessage) ==
    LET bad == {i \in 1..10 : \/ i > Len(oscMessage.arguments)
                              \/ oscMessage.arguments[i].type # "f"}
        a == oscMessage.arguments
    IN  IF sensorsCallback = NULL THEN Return(OscErrorNone, <<>>)
        ELSE IF bad # {}
        THEN Return(IF \E i \in bad : i <= Len(a) /\ \A j \in bad : i <= j
                    THEN OscErrorUnexpectedArgumentType
                    ELSE OscErrorNoArgumentsAvailable, <<>>)
        ELSE Return(OscErrorNone,
                    <<Invoke("sensors", sensorsCallback,
                             [timestamp |-> oscTimeTag,
                              gyroscopeX |-> a[1].value, gyroscopeY |-> a[2].value,
                              gyroscopeZ |-> a[3].value, accelerometerX |-> a[4].value,
                              accelerometerY |-> a[5].value, accelerometerZ |-> a[6].value,
                              magnetometerX |-> a[7].value, magnetometerY |-> a[8].value,
                              magnetometerZ |-> a[10].value, barometer |-> a[9].value],
                             oscMessage)>>)

ProcessSensors(oscTimeTag, oscMessage) ==
    IF sensorsCallback = NULL THEN ReturnAt(OscErrorNone, <<>>, 0) ELSE
    LET gyroscopeX == OscMessageGetArgumentAsFloat32(oscMessage, 0) IN
    IF gyroscopeX.oscError # OscErrorNone THEN Return(gyroscopeX.oscError, <<>>) ELSE
    LET gyroscopeY == OscMessageGetArgumentAsFloat32(oscMessage, gyroscopeX.argumentIndex) IN
    IF gyroscopeY.oscError # OscErrorNone THEN Return(gyroscopeY.oscError, <<>>) ELSE
    LET gyroscopeZ == OscMessageGetArgumentAsFloat32(oscMessage, gyroscopeY.argumentIndex) IN
    IF gyroscopeZ.oscError # OscErrorNone THEN Return(gyroscopeZ.oscError, <<>>) ELSE
    LET accelerometerX == OscMessageGetArgumentAsFloat32(oscMessage, gyroscopeZ.argumentIndex) IN
    IF accelerometerX.oscError # OscErrorNone THEN Return(accelerometerX.oscError, <<>>) ELSE
    LET accelerometerY == OscMessageGetArgumentAsFloat32(oscMessage, accelerometerX.argumentIndex) IN
    IF accelerometerY.oscError # OscErrorNone THEN Return(accelerometerY.oscError, <<>>) ELSE
    LET accelerometerZ == OscMessageGetArgumentAsFloat32(oscMessage, accelerometerY.argumentIndex) IN
    IF accelerometerZ.oscError # OscErrorNone THEN Return(accelerometerZ.oscError, <<>>) ELSE
    LET magnetometerX == OscMessageGetArgumentAsFloat32(oscMessage, accelerometerZ.argumentIndex) IN
    IF magnetometerX.oscError # OscErrorNone THEN Return(magnetometerX.oscError, <<>>) ELSE
    LET magnetometerY == OscMessageGetArgumentAsFloat32(oscMessage, magnetometerX.argumentIndex) IN
    IF magnetometerY.oscError # OscErrorNone THEN Return(magnetometerY.oscError, <<>>) ELSE
    LET magnetometerZ == OscMessageGetArgumentAsFloat32(oscMessage, magnetometerY.argumentIndex) IN
    IF magnetometerZ.oscError # OscErrorNone THEN Return(magnetometerZ.oscError, <<>>) ELSE
    LET barometer == OscMessageGetArgumentAsFloat32(oscMessage, magnetometerZ.argumentIndex) IN
    IF barometer.oscError # OscErrorNone THEN Return(barometer.oscError, <<>>) ELSE
    LET ngimuSensors ==
        [timestamp |-> oscTimeTag,
         gyroscopeX |-> gyroscopeX.value,
         gyroscopeY |-> gyroscopeY.value,
         gyroscopeZ |-> gyroscopeZ.value,
         accelerometerX |-> accelerometerX.value,
         accelerometerY |-> accelerometerY.value,
         accelerometerZ |-> accelerometerZ.value,
         magnetometerX |-> magnetometerX.value,
         magnetometerY |-> magnetometerY.value,
         magnetometerZ |-> magnetometerZ.value,
         barometer |-> barometer.value]
    IN  ReturnAt(OscErrorNone, <<Invoke("sensors", sensorsCallback, ngimuSensors, oscMessage)>>,
                 barometer.argumentIndex)

\* ProcessQuaternion with the third argument read into z and the fourth into y.
MutantProcessQuaternion(oscTimeTag, oscMessage) ==
    IF quaternionCallback = NULL THEN Return(OscErrorNone, <<>>) ELSE
    LET w == OscMessageGetArgumentAsFloat32(oscMessage, 0) IN
    IF w.oscError # OscErrorNone THEN Return(w.oscError, <<>>) ELSE
    LET x == OscMessageGetArgumentAsFloat32(oscMessage, w.argumentIndex) IN
    IF x.oscError # OscErrorNone THEN Return(x.oscError, <<>>) ELSE
    LET z == OscMessageGetArgumentAsFloat32(oscMessage, x.argumentIndex) IN
    IF z.oscError # OscErrorNone THEN Return(z.oscError, <<>>) ELSE
    LET y == OscMessageGetArgumentAsFloat32(oscMessage, z.argumentIndex) IN
    IF y.oscError # OscErrorNone THEN Return(y.oscError, <<>>) ELSE
    LET ngimuQuaternion ==
        [timestamp |-> oscTimeTag, w |-> w.value, x |-> x.value, y |-> y.value, z |-> z.value]
    IN  Return(OscErrorNone, <<Invoke("quaternion", quaternionCallback, ngimuQuaternion, oscMessage)>>)

\* ProcessQuaternion that reads the arguments before it tests whether a
\* callback is registered.
MutantQuaternionReadsFirst(oscTimeTag, oscMessage) ==
    LET w == OscMessageGetArgumentAsFloat32(oscMessage, 0) IN
    IF w.oscError # OscErrorNone THEN Return(w.oscError, <<>>) ELSE
    LET x == OscMessageGetArgumentAsFloat32(oscMessage, w.argumentIndex) IN
    IF x.oscError # OscErrorNone THEN Return(x.oscError, <<>>) ELSE
    LET y == OscMessageGetArgumentAsFloat32(oscMessage, x.argumentIndex) IN
    IF y.oscError # OscErrorNone THEN Return(y.oscError, <<>>) ELSE
    LET z == OscMessageGetArgumentAsFloat32(oscMessage, y.argumentIndex) IN
    IF z.oscError # OscErrorNone THEN Return(z.oscError, <<>>) ELSE
    IF quaternionCallback = NULL THEN ReturnAt(OscErrorNone, <<>>, z.argumentIndex) ELSE
    LET ngimuQuaternion ==
        [timestamp |-> oscTimeTag, w |-> w.value, x |-> x.value, y |-> y.value, z |-> z.value]
    IN  ReturnAt(OscErrorNone,
                 <<Invoke("quaternion", quaternionCallback, ngimuQuaternion, oscMessage)>>,
                 z.argumentIndex)

ProcessQuaternion(oscTimeTag, oscMessage) ==
    IF quaternionCallback = NULL THEN ReturnAt(OscErrorNone, <<>>, 0) ELSE
    LET w == OscMessageGetArgumentAsFloat32(oscMessage, 0) IN
    IF w.oscError # OscErrorNone THEN Return(w.oscError, <<>>) ELSE
    LET x == OscMessageGetArgumentAsFloat32(oscMessage, w.argumentIndex) IN
    IF x.oscError # OscErrorNone THEN Return(x.oscError, <<>>) ELSE
    LET y == OscMessageGetArgumentAsFloat32(oscMessage, x.argumentIndex) IN
    IF y.oscError # OscErrorNone THEN Return(y.oscError, <<>>) ELSE
    LET z == OscMessageGetArgumentAsFloat32(oscMessage, y.argumentIndex) IN
    IF z.oscError # OscErrorNone THEN Return(z.oscError, <<>>) ELSE
    LET ngimuQuaternion ==
        [timestamp |-> oscTimeTag,
         w |-> w.value,
         x |-> x.value,
         y |-> y.value,
         z |-> z.value]
    IN  ReturnAt(OscErrorNone, <<Invoke("quaternion", quaternionCallback, ngimuQuaternion, oscMessage)>>,
                 z.argumentIndex)

\* ProcessEuler without the return after a failed read of yaw: the callback
\* is given the record with yaw as it was on the stack.
MutantProcessEuler(oscTimeTag, oscMessage) ==
    IF eulerCallback = NULL THEN Return(OscErrorNone, <<>>) ELSE
    LET roll == OscMessageGetArgumentAsFloat32(oscMessage, 0) IN
    IF roll.oscError # OscErrorNone THEN Return(roll.oscError, <<>>) ELSE
    LET pitch == OscMessageGetArgumentAsFloat32(oscMessage, roll.argumentIndex) IN
    IF pitch.oscError # OscErrorNone THEN Return(pitch.oscError, <<>>) ELSE
    LET yaw == OscMessageGetArgumentAsFloat32(oscMessage, pitch.argumentIndex)
        ngimuEuler ==
            [timestamp |-> oscTimeTag, roll |-> roll.value, pitch |-> pitch.value,
             yaw |-> IF yaw.oscError = OscErrorNone THEN yaw.value ELSE 0]
    IN  Return(OscErrorNone, <<Invoke("euler", eulerCallback, ngimuEuler, oscMessage)>>)

\* ProcessEuler that refuses a message with arguments left after yaw.
MutantEulerRefusesMore(oscTimeTag, oscMessage) ==
    IF eulerCallback = NULL THEN ReturnAt(OscErrorNone, <<>>, 0) ELSE
    LET roll == OscMessageGetArgumentAsFloat32(oscMessage, 0) IN
    IF roll.oscError # OscErrorNone THEN Return(roll.oscError, <<>>) ELSE
    LET pitch == OscMessageGetArgumentAsFloat32(oscMessage, roll.argumentIndex) IN
    IF pitch.oscError # OscErrorNone THEN Return(pitch.oscError, <<>>) ELSE
    LET yaw == OscMessageGetArgumentAsFloat32(oscMessage, pitch.argumentIndex) IN
    IF yaw.oscError # OscErrorNone THEN Return(yaw.oscError, <<>>) ELSE
    IF yaw.argumentIndex < Len(oscMessage.arguments)
    THEN ReturnAt(OscErrorUnexpectedArgumentType, <<>>, yaw.argumentIndex) ELSE
    LET ngimuEuler ==
        [timestamp |-> oscTimeTag, roll |-> roll.value, pitch |-> pitch.value,
         yaw |-> yaw.value]
    IN  ReturnAt(OscErrorNone, <<Invoke("euler", eulerCallback, ngimuEuler, oscMessage)>>,
                 yaw.argumentIndex)

ProcessEuler(oscTimeTag, oscMessage) ==
    IF eulerCallback = NULL THEN ReturnAt(OscErrorNone, <<>>, 0) ELSE
    LET roll == OscMessageGetArgumentAsFloat32(oscMessage, 0) IN
    IF roll.oscError # OscErrorNone THEN Return(roll.oscError, <<>>) ELSE
    LET pitch == OscMessageGetArgumentAsFloat32(oscMessage, roll.argumentIndex) IN
    IF pitch.oscError # OscErrorNone THEN Return(pitch.oscError, <<>>) ELSE
    LET yaw == OscMessageGetArgumentAsFloat32(oscMessage, pitch.argumentIndex) IN
    IF yaw.oscError # OscErrorNone THEN Return(yaw.oscError, <<>>) ELSE
    LET ngimuEuler ==
        [timestamp |-> oscTimeTag,
         roll |-> roll.value,
         pitch |-> pitch.value,
         yaw |-> yaw.value]
    IN  ReturnAt(OscErrorNone, <<Invoke("euler", eulerCallback, ngimuEuler, oscMessage)>>,
                 yaw.argumentIndex)

\* sizeof (string) of the static buffer the diagnostic is printed into.
StringSize == 256
\* Length of "OSC address pattern not recognised: ".
NotRecognisedLength == 36

\* NotRecognisedString with a buffer that holds the fixed text and three
\* characters more.
MutantNotRecognisedString(oscAddressPattern) ==
    [text |-> "OSC address pattern not recognised: ",
     address |-> SubSeq(oscAddressPattern, 1,
                        IF Len(oscAddressPattern) <= 3 THEN Len(oscAddressPattern) ELSE 3)]

\* snprintf(string, sizeof (string), "OSC address pattern not recognised: %s", ...):
\* the text is cut to sizeof (string) - 1 characters.
NotRecognisedString(oscAddressPattern) ==
    LET room == StringSize - 1 - NotRecognisedLength
        kept == IF Len(oscAddressPattern) <= room THEN Len(oscAddressPattern) ELSE room
    IN  [text |-> "OSC address pattern not recognised: ",
         address |-> SubSeq(oscAddressPattern, 1, kept)]

\* ProcessAddress that returns an error after it has reported an address it
\* does not recognise.
MutantProcessAddress(oscTimeTag, oscMessage) ==
    IF OscAddressMatch(oscMessage.oscAddressPattern, AddressSensors)
    THEN ProcessSensors(oscTimeTag, oscMessage)
    ELSE IF OscAddressMatch(oscMessage.oscAddressPattern, AddressQuaternion)
    THEN ProcessQuaternion(oscTimeTag, oscMessage)
    ELSE IF OscAddressMatch(oscMessage.oscAddressPattern, AddressEuler)
    THEN ProcessEuler(oscTimeTag, oscMessage)
    ELSE IF receiveErrorCallback # NULL
    THEN Return(OscErrorInvalidContents,
                <<Invoke("error", receiveErrorCallback,
                         NotRecognisedString(oscMessage.oscAddressPattern), oscMessage)>>)
    ELSE Return(OscErrorInvalidContents, <<>>)

\* ProcessAddress that goes on to the next known address after a match: the
\* message is given to the extractor of every address its pattern matches.
MutantProcessAddressEveryMatch(oscTimeTag, oscMessage) ==
    LET none == ReturnAt(OscErrorNone, <<>>, 0)
        s == IF OscAddressMatch(oscMessage.oscAddressPattern, AddressSensors)
             THEN ProcessSensors(oscTimeTag, oscMessage) ELSE none
        q == IF OscAddressMatch(oscMessage.oscAddressPattern, AddressQuaternion)
             THEN ProcessQuaternion(oscTimeTag, oscMessage) ELSE none
        e == IF OscAddressMatch(oscMessage.oscAddressPattern, AddressEuler)
             THEN ProcessEuler(oscTimeTag, oscMessage) ELSE none
    IN  ReturnAt(IF s.oscError # OscErrorNone THEN s.oscError
                 ELSE IF q.oscError # OscErrorNone THEN q.oscError ELSE e.oscError,
                 s.calls \o q.calls \o e.calls, 0)

ProcessAddress(oscTimeTag, oscMessage) ==
    IF OscAddressMatch(oscMessage.oscAddressPattern, AddressSensors)
    THEN ProcessSensors(oscTimeTag, oscMessage)
    ELSE IF OscAddressMatch(oscMessage.oscAddressPattern, AddressQuaternion)
    THEN ProcessQuaternion(oscTimeTag, oscMessage)
    ELSE IF OscAddressMatch(oscMessage.oscAddressPattern, AddressEuler)
    THEN ProcessEuler(oscTimeTag, oscMessage)
    ELSE IF receiveErrorCallback # NULL
    THEN ReturnAt(OscErrorNone,
                  <<Invoke("error", receiveErrorCallback,
                           NotRecognisedString(oscMessage.oscAddressPattern), oscMessage)>>, 0)
    ELSE ReturnAt(OscErrorNone, <<>>, 0)

\* if ((oscError != OscErrorNone) && (receiveErrorCallback != NULL)) {
\*     receiveErrorCallback(OscErrorGetMessage(oscError)); }
\* after the call that returned oscError; the invocations that call made come
\* first.
ReportError(r, oscMessage) ==
    IF r.oscError # OscErrorNone /\ receiveErrorCallback # NULL
    THEN r.calls \o <<Invoke("error", receiveErrorCallback,
                             OscErrorGetMessage(r.oscError), oscMessage)>>
    ELSE r.calls

\* ProcessMessage without the report of the error ProcessAddress returns.
MutantProcessMessage(oscTimeTag, oscMessage) ==
    ProcessAddress(oscTimeTag, oscMessage).calls

ProcessMessage(oscTimeTag, oscMessage) ==
    ReportError(ProcessAddress(oscTimeTag, oscMessage), oscMessage)

----------------------------------------------------------------------------
(* Packets and the SLIP decoder *)

\* OscPacketProcessMessages with processMessage = &ProcessMessage: the
\* messages of the packet are handed to ProcessMessage in the order in which
\* they appear; contents that are no OSC message end the processing with an
\* error, and so does an empty packet.
RECURSIVE DeconstructContents(_)
DeconstructContents(contents) ==
    IF contents = <<>> THEN Return(OscErrorNone, <<>>)
    ELSE IF Head(contents).kind # "message" THEN Return(OscErrorInvalidContents, <<>>)
    ELSE LET first == ProcessMessage(Head(contents).timeTag, Head(contents))
             rest == DeconstructContents(Tail(contents))
         IN  Return(rest.oscError, first \o rest.calls)

OscPacketProcessMessages(oscPacket) ==
    IF oscPacket = <<>> THEN Return(OscErrorContentsEmpty, <<>>)
    ELSE DeconstructContents(oscPacket)

\* ProcessPacket without oscPacket->processMessage = &ProcessMessage: the
\* packet has no message callback and OscPacketProcessMessages refuses it.
MutantProcessPacket(oscPacket) ==
    IF receiveErrorCallback # NULL
    THEN <<Invoke("error", receiveErrorCallback,
                  OscErrorGetMessage(OscErrorCallbackFunctionUndefined), NoMessage)>>
    ELSE <<>>

ProcessPacket(oscPacket) ==
    ReportError(OscPacketProcessMessages(oscPacket), NoMessage)

\* The decoding loop of OscSlipDecoderProcessByte: the buffer up to its END
\* byte, with ESC ESC_END read as END and ESC ESC_ESC read as ESC.
RECURSIVE SlipDecode(_)
SlipDecode(buffer) ==
    IF Head(buffer) = SLIP_END THEN [oscError |-> OscErrorNone, contents |-> <<>>]
    ELSE IF Head(buffer) = SLIP_ESC
    THEN IF buffer[2] \notin {SLIP_ESC_END, SLIP_ESC_ESC}
         THEN [oscError |-> OscErrorUnexpectedByteAfterSlipEsc, contents |-> <<>>]
         ELSE LET rest == SlipDecode(Tail(Tail(buffer)))
                  byte == IF buffer[2] = SLIP_ESC_END THEN SLIP_END ELSE SLIP_ESC
              IN  [oscError |-> rest.oscError, contents |-> <<byte>> \o rest.contents]
    ELSE LET rest == SlipDecode(Tail(buffer))
         IN  [oscError |-> rest.oscError, contents |-> <<Head(buffer)>> \o rest.contents]

\* OscSlipDecoderProcessByte(&oscSlipDecoder, byte): the decoder after the
\* byte, the OscError the function returns, and the callbacks invoked through
\* oscSlipDecoder.processPacket.
OscSlipDecoderProcessByte(decoder, byte) ==
    LET buffer == Append(decoder.buffer, byte)
        reset == [decoder EXCEPT !.buffer = <<>>]
    IN  IF Len(buffer) >= DecoderBufferSize
        THEN [decoder |-> reset, oscError |-> OscErrorEncodedSlipPacketTooLong, calls |-> <<>>]
        ELSE IF byte # SLIP_END
        THEN [decoder |-> [decoder EXCEPT !.buffer = buffer],
              oscError |-> OscErrorNone, calls |-> <<>>]
        ELSE LET decoded == SlipDecode(buffer) IN
             IF decoded.oscError # OscErrorNone
             THEN [decoder |-> reset, oscError |-> decoded.oscError, calls |-> <<>>]
             ELSE IF decoder.processPacket = NULL
             THEN [decoder |-> reset, oscError |-> OscErrorCallbackFunctionUndefined,
                   calls |-> <<>>]
             ELSE [decoder |-> reset, oscError |-> OscErrorNone,
                   calls |-> ProcessPacket(decoded.contents)]

----------------------------------------------------------------------------
(* The API of NgimuReceive.h, one action per function *)

\* What lastCall records of a call: its input, the bytes the decoder held
\* with the byte of the call (frame), the OscError of the library function the
\* call made, the callbacks it invoked and, for a datagram that repeats the
\* datagram before it, the callbacks that one invoked.
Observe(op, input, frame, oscError, calls, repeated, before) ==
    [op |-> op, input |-> input, frame |-> frame, oscError |-> oscError,
     calls |-> calls, repeated |-> repeated, before |-> before]

\* A call of a Set function: it processes no input.
ObserveQuiet == Observe("none", <<>>, <<>>, OscErrorNone, <<>>, FALSE, <<>>)

\* A call of NgimuReceiveInitialise: it processes no input either.
ObserveInitialise ==
    Observe("NgimuReceiveInitialise", <<>>, <<>>, OscErrorNone, <<>>, FALSE, <<>>)

NoDatagram == [known |-> FALSE, input |-> <<>>, calls |-> <<>>]

\* The slots whose latest Set call put one function in the place of another.
Replaced(slot, old, new) ==
    IF old # NULL /\ new # NULL /\ old # new
    THEN replaced \cup {slot} ELSE replaced \ {slot}

\* NgimuReceiveInitialise that sets the four callback pointers to NULL as well.
MutantInitialiseClearsCallbacks ==
    /\ oscSlipDecoder' = [buffer |-> <<>>, processPacket |-> "ProcessPacket"]
    /\ receiveErrorCallback' = NULL
    /\ sensorsCallback' = NULL
    /\ quaternionCallback' = NULL
    /\ eulerCallback' = NULL
    /\ lastCall' = ObserveInitialise
    /\ badStream' = FALSE
    /\ UNCHANGED <<udpHistory, registered, replaced>>

NgimuReceiveInitialise ==
    /\ oscSlipDecoder' = [buffer |-> <<>>, processPacket |-> "ProcessPacket"]
    /\ lastCall' = ObserveInitialise
    /\ badStream' = FALSE
    /\ UNCHANGED <<callbackVars, udpHistory, registered, replaced>>

NgimuReceiveSetReceiveErrorCallback(newReceiveErrorCallback) ==
    /\ receiveErrorCallback' = newReceiveErrorCallback
    /\ registered' = [registered EXCEPT !.error = newReceiveErrorCallback]
    /\ replaced' = Replaced("error", registered.error, newReceiveErrorCallback)
    /\ lastCall' = ObserveQuiet
    /\ udpHistory' = NoDatagram
    /\ badStream' = FALSE
    /\ UNCHANGED <<sensorsCallback, quaternionCallback, eulerCallback, oscSlipDecoder>>

\* NgimuReceiveSetSensorsCallback that keeps a function already registered.
MutantSetSensorsCallback(newSensorsCallback) ==
    /\ sensorsCallback' = IF sensorsCallback = NULL THEN newSensorsCallback
                          ELSE sensorsCallback
    /\ registered' = [registered EXCEPT !.sensors = newSensorsCallback]
    /\ replaced' = Replaced("sensors", registered.sensors, newSensorsCallback)
    /\ lastCall' = ObserveQuiet
    /\ udpHistory' = NoDatagram
    /\ badStream' = FALSE
    /\ UNCHANGED <<receiveErrorCallback, quaternionCallback, eulerCallback, oscSlipDecoder>>

NgimuReceiveSetSensorsCallback(newSensorsCallback) ==
    /\ sensorsCallback' = newSensorsCallback
    /\ registered' = [registered EXCEPT !.sensors = newSensorsCallback]
    /\ replaced' = Replaced("sensors", registered.sensors, newSensorsCallback)
    /\ lastCall' = ObserveQuiet
    /\ udpHistory' = NoDatagram
    /\ badStream' = FALSE
    /\ UNCHANGED <<receiveErrorCallback, quaternionCallback, eulerCallback, oscSlipDecoder>>

NgimuReceiveSetQuaternionCallback(newQuaternionCallback) ==
    /\ quaternionCallback' = newQuaternionCallback
    /\ registered' = [registered EXCEPT !.quaternion = newQuaternionCallback]
    /\ replaced' = Replaced("quaternion", registered.quaternion, newQuaternionCallback)
    /\ lastCall' = ObserveQuiet
    /\ udpHistory' = NoDatagram
    /\ badStream' = FALSE
    /\ UNCHANGED <<receiveErrorCallback, sensorsCallback, eulerCallback, oscSlipDecoder>>

\* NgimuReceiveSetEulerCallback that assigns the quaternion slot as well.
MutantSetEulerCallback(newEulerCallback) ==
    /\ eulerCallback' = newEulerCallback
    /\ quaternionCallback' = newEulerCallback
    /\ registered' = [registered EXCEPT !.euler = newEulerCallback]
    /\ replaced' = Replaced("euler", registered.euler, newEulerCallback)
    /\ lastCall' = ObserveQuiet
    /\ udpHistory' = NoDatagram
    /\ badStream' = FALSE
    /\ UNCHANGED <<receiveErrorCallback, sensorsCallback, oscSlipDecoder>>

NgimuReceiveSetEulerCallback(newEulerCallback) ==
    /\ eulerCallback' = newEulerCallback
    /\ registered' = [registered EXCEPT !.euler = newEulerCallback]
    /\ replaced' = Replaced("euler", registered.euler, newEulerCallback)
    /\ lastCall' = ObserveQuiet
    /\ udpHistory' = NoDatagram
    /\ badStream' = FALSE
    /\ UNCHANGED <<receiveErrorCallback, sensorsCallback, quaternionCallback, oscSlipDecoder>>

\* The body of NgimuReceiveProcessSerialByte: the decoder's result, of which
\* the function keeps the decoder's state and drops the returned OscError.
ProcessSerialByte(byte) == OscSlipDecoderProcessByte(oscSlipDecoder, byte)

\* NgimuReceiveProcessSerialByte that leaves the decoder as it was before the
\* call when the decoder returns an error.
MutantSerialByteKeepsBuffer(byte) ==
    LET r == ProcessSerialByte(byte) IN
    /\ oscSlipDecoder' = IF r.oscError # OscErrorNone
                         THEN [oscSlipDecoder EXCEPT
                                  !.buffer = IF Len(@) < DecoderBufferSize - 1
                                             THEN Append(@, byte) ELSE @]
                         ELSE r.decoder
    /\ lastCall' = Observe("NgimuReceiveProcessSerialByte", <<byte>>,
                           Append(oscSlipDecoder.buffer, byte), r.oscError, r.calls,
                           FALSE, <<>>)
    /\ badStream' = (badStream \/ r.oscError # OscErrorNone)
    /\ UNCHANGED <<callbackVars, udpHistory, registered, replaced>>

NgimuReceiveProcessSerialByte(byte) ==
    LET r == ProcessSerialByte(byte) IN
    /\ oscSlipDecoder' = r.decoder
    /\ lastCall' = Observe("NgimuReceiveProcessSerialByte", <<byte>>,
                           Append(oscSlipDecoder.buffer, byte), r.oscError, r.calls,
                           FALSE, <<>>)
    /\ badStream' = (\/ badStream
                     \/ lastCall'.oscError # OscErrorNone
                     \/ \E i \in 1..Len(lastCall'.calls) :
                           lastCall'.calls[i].callback = "error")
    /\ UNCHANGED <<callbackVars, udpHistory, registered, replaced>>

\* ProcessUdpPacket with a packet kept from call to call: a datagram equal
\* to the one before it is taken as already processed.
MutantProcessUdpPacket(source) ==
    IF udpHistory.known /\ udpHistory.input = source
    THEN Return(OscErrorNone, <<>>)
    ELSE OscPacketProcessMessages(source)

\* The messages of a packet, last to first.
RECURSIVE Backwards(_)
Backwards(packet) ==
    IF packet = <<>> THEN <<>> ELSE Append(Backwards(Tail(packet)), Head(packet))

\* ProcessUdpPacket that processes the messages of the packet last to first.
MutantUdpPacketBackwards(source) == OscPacketProcessMessages(Backwards(source))

\* The body of NgimuReceiveProcessUdpPacket: the packet is processed at once;
\* the OscError of OscPacketProcessMessages is dropped.
ProcessUdpPacket(source) == OscPacketProcessMessages(source)

NgimuReceiveProcessUdpPacket(source) ==
    LET r == ProcessUdpPacket(source)
        repeated == udpHistory.known /\ udpHistory.input = source
    IN  /\ lastCall' = Observe("NgimuReceiveProcessUdpPacket", source, <<>>,
                               r.oscError, r.calls, repeated,
                               IF repeated THEN udpHistory.calls ELSE <<>>)
        /\ udpHistory' = [known |-> TRUE, input |-> source, calls |-> r.calls]
        /\ badStream' = FALSE
        /\ UNCHANGED <<callbackVars, oscSlipDecoder, registered, replaced>>

Init ==
    /\ receiveErrorCallback = NULL
    /\ sensorsCallback = NULL
    /\ quaternionCallback = NULL
    /\ eulerCallback = NULL
    /\ oscSlipDecoder = [buffer |-> <<>>, processPacket |-> NULL]
    /\ lastCall = ObserveQuiet
    /\ udpHistory = NoDatagram
    /\ registered = [error |-> NULL, sensors |-> NULL, quaternion |-> NULL, euler |-> NULL]
    /\ replaced = {}
    /\ badStream = FALSE

----------------------------------------------------------------------------
(* Inputs *)

TimeTags == 1..MaxTimeTag

SensorsMessage(t) == OscMessage(t, AddressSensors, Floats(10, 0))
QuaternionMessage(t) == OscMessage(t, AddressQuaternion, Floats(4, 20))
EulerMessage(t) == OscMessage(t, AddressEuler, Floats(3, 30))
\* The orientation w = 1, x = y = z = 0.
IdentityQuaternionMessage(t) ==
    OscMessage(t, AddressQuaternion, <<Float32(1), Float32(0), Float32(0), Float32(0)>>)
BatteryMessage == OscMessage(1, AddressBattery, Floats(1, 40))
ShortSensorsMessage == OscMessage(1, AddressSensors, Floats(9, 0))
ShortEulerMessage == OscMessage(2, AddressEuler, Floats(2, 30))

\* A /quaternion message with a string after its four float32 arguments.
LongQuaternionMessage ==
    OscMessage(2, AddressQuaternion, Append(Floats(4, 20), OscString(5)))

\* Messages with too few, too many and wrongly typed arguments, an address
\* that is not known, and address patterns with wildcards.
OtherMessages ==
    { ShortSensorsMessage,
      OscMessage(2, AddressSensors, Floats(11, 0)),
      OscMessage(1, AddressSensors, [Floats(10, 0) EXCEPT ![4] = OscString(4)]),
      OscMessage(1, AddressQuaternion, Floats(3, 20)),
      OscMessage(1, AddressQuaternion, Floats(5, 20)),
      LongQuaternionMessage,
      OscMessage(2, AddressQuaternion, [Floats(4, 20) EXCEPT ![4] = OscString(4)]),
      ShortEulerMessage,
      OscMessage(1, AddressEuler, Floats(4, 30)),
      OscMessage(1, AddressEuler, [Floats(3, 30) EXCEPT ![1] = OscString(1)]),
      OscMessage(1, AddressEuler, <<>>),
      BatteryMessage,
      OscMessage(1, AddressAny, Floats(10, 0)),
      OscMessage(2, AddressQuestionEuler, Floats(3, 30)) }

Messages ==
    {SensorsMessage(t) : t \in TimeTags} \cup {QuaternionMessage(t) : t \in TimeTags}
    \cup {EulerMessage(t) : t \in TimeTags}
    \cup {IdentityQuaternionMessage(t) : t \in TimeTags} \cup OtherMessages

\* The symbols of which longer datagrams are made.
ShortQuaternionMessage == OscMessage(1, AddressQuaternion, Floats(3, 20))

\* The messages of which longer datagrams are made.
CoreMessages == {QuaternionMessage(1), ShortEulerMessage}

\* Datagrams of one message each, datagrams of several messages, and
\* datagrams with contents that are no OSC message.
Datagrams ==
    {<<m>> : m \in Messages}
    \cup UNION {[1..n -> CoreMessages] : n \in 0..MaxPacketLength}
    \cup {<<SLIP_ESC>>, <<QuaternionMessage(1), SLIP_ESC>>,
          <<SLIP_ESC, QuaternionMessage(1)>>,
          <<QuaternionMessage(1), SLIP_ESC, QuaternionMessage(1)>>}

FewDatagrams ==
    {<<SensorsMessage(1)>>, <<QuaternionMessage(2)>>, <<EulerMessage(1)>>,
     <<ShortEulerMessage, BatteryMessage>>}

OneDatagram == {<<QuaternionMessage(1), ShortQuaternionMessage>>}

SerialBytes ==
    {SLIP_END, SLIP_ESC, SLIP_ESC_END, SLIP_ESC_ESC,
     QuaternionMessage(1), ShortQuaternionMessage, BatteryMessage}

FewSerialBytes == {SLIP_END}

\* Bytes that leave the decoder in the middle of a frame, and the byte that
\* ends a frame.
FrameBytes == {SLIP_END, SLIP_ESC_END}

Registrable == CallbackFunctions \cup {NULL}

FewRegistrable == {"A", NULL}

----------------------------------------------------------------------------
(* Specifications *)

\* Datagrams of every kind; a short serial stream beside them.
Next ==
    \/ NgimuReceiveInitialise
    \/ \E f \in FewRegistrable : NgimuReceiveSetReceiveErrorCallback(f)
    \/ \E f \in FewRegistrable : NgimuReceiveSetSensorsCallback(f)
    \/ \E f \in FewRegistrable : NgimuReceiveSetQuaternionCallback(f)
    \/ \E f \in FewRegistrable : NgimuReceiveSetEulerCallback(f)
    \/ \E byte \in FewSerialBytes : NgimuReceiveProcessSerialByte(byte)
    \/ \E source \in Datagrams : NgimuReceiveProcessUdpPacket(source)

Spec == Init /\ [][Next]_vars

\* Serial streams of every kind, with the callbacks their messages reach.
NextSerial ==
    \/ NgimuReceiveInitialise
    \/ \E f \in FewRegistrable : NgimuReceiveSetReceiveErrorCallback(f)
    \/ \E f \in FewRegistrable : NgimuReceiveSetQuaternionCallback(f)
    \/ \E byte \in SerialBytes : NgimuReceiveProcessSerialByte(byte)
    \/ \E source \in OneDatagram : NgimuReceiveProcessUdpPacket(source)

SpecSerial == Init /\ [][NextSerial]_vars

\* Every registration of every slot, with few inputs.
NextRegistration ==
    \/ NgimuReceiveInitialise
    \/ \E f \in Registrable : NgimuReceiveSetReceiveErrorCallback(f)
    \/ \E f \in Registrable : NgimuReceiveSetSensorsCallback(f)
    \/ \E f \in Registrable : NgimuReceiveSetQuaternionCallback(f)
    \/ \E f \in Registrable : NgimuReceiveSetEulerCallback(f)
    \/ \E byte \in FewSerialBytes : NgimuReceiveProcessSerialByte(byte)
    \/ \E source \in FewDatagrams : NgimuReceiveProcessUdpPacket(source)

SpecRegistration == Init /\ [][NextRegistration]_vars

\* Registration in every slot while the decoder is in the middle of a frame.
NextSlots ==
    \/ NgimuReceiveInitialise
    \/ \E f \in FewRegistrable : NgimuReceiveSetReceiveErrorCallback(f)
    \/ \E f \in FewRegistrable : NgimuReceiveSetSensorsCallback(f)
    \/ \E f \in FewRegistrable : NgimuReceiveSetQuaternionCallback(f)
    \/ \E f \in FewRegistrable : NgimuReceiveSetEulerCallback(f)
    \/ \E byte \in FrameBytes : NgimuReceiveProcessSerialByte(byte)
    \/ \E source \in OneDatagram : NgimuReceiveProcessUdpPacket(source)

SpecSlots == Init /\ [][NextSlots]_vars

----------------------------------------------------------------------------
(* Properties *)

TypedSlots == {"sensors", "quaternion", "euler"}

\* The known address the pattern of a message matches first; "none" when it
\* matches no known address.
KindOf(m) ==
    IF OscAddressMatch(m.oscAddressPattern, AddressSensors) THEN "sensors"
    ELSE IF OscAddressMatch(m.oscAddressPattern, AddressQuaternion) THEN "quaternion"
    ELSE IF OscAddressMatch(m.oscAddressPattern, AddressEuler) THEN "euler"
    ELSE "none"

\* The number of arguments a record of each kind is made of.
Required(kind) ==
    CASE kind = "sensors" -> 10 [] kind = "quaternion" -> 4 [] kind = "euler" -> 3

\* The function registered in a slot.
Slot(kind) ==
    CASE kind = "sensors" -> sensorsCallback
      [] kind = "quaternion" -> quaternionCallback
      [] kind = "euler" -> eulerCallback
      [] kind = "error" -> receiveErrorCallback

\* The first n arguments of m are float32 values.
FloatPrefix(m, n) ==
    Len(m.arguments) >= n /\ \A i \in 1..n : m.arguments[i].type = "f"

\* The fields of a record in the order of their declaration in NgimuReceive.h.
FieldsOf(callback, arg) ==
    CASE callback = "sensors" ->
            <<arg.gyroscopeX, arg.gyroscopeY, arg.gyroscopeZ,
              arg.accelerometerX, arg.accelerometerY, arg.accelerometerZ,
              arg.magnetometerX, arg.magnetometerY, arg.magnetometerZ, arg.barometer>>
      [] callback = "quaternion" -> <<arg.w, arg.x, arg.y, arg.z>>
      [] callback = "euler" -> <<arg.roll, arg.pitch, arg.yaw>>

\* The messages of a packet that reach ProcessMessage: those before the first
\* symbol that is no message.
RECURSIVE MessagePrefix(_)
MessagePrefix(contents) ==
    IF contents = <<>> \/ Head(contents).kind # "message" THEN <<>>
    ELSE <<Head(contents)>> \o MessagePrefix(Tail(contents))

LastIsDatagram == lastCall.op = "NgimuReceiveProcessUdpPacket"

LastIsSerialByte == lastCall.op = "NgimuReceiveProcessSerialByte"

\* The messages the latest call handed to ProcessMessage, when it was a datagram.
LastMessages == IF LastIsDatagram THEN MessagePrefix(lastCall.input) ELSE <<>>

Occurrences(seq, x) == Cardinality({i \in 1..Len(seq) : seq[i] = x})

\* The callbacks the latest call invoked while processing message m.
CallsFor(m) ==
    LET Of(c) == c.message = m IN SelectSeq(lastCall.calls, Of)

TypedCallsFor(m) ==
    LET Typed(c) == c.callback \in TypedSlots IN SelectSeq(CallsFor(m), Typed)

ErrorCallsFor(m) ==
    LET Error(c) == c.callback = "error" IN SelectSeq(CallsFor(m), Error)

\* n times the invocation c.
Times(n, c) == [k \in 1..n |-> c]

\* m has a known address and fewer arguments than its kind requires.
ShortOfArguments(m) ==
    KindOf(m) # "none" /\ Len(m.arguments) < Required(KindOf(m))

\* C1: every record a sensors, quaternion or euler callback is given was
\* filled, field by field in order, from float32 arguments of the message being
\* processed, which has at least as many as the record has fields; and a
\* message of a known kind whose required arguments cannot all be read as
\* float32 never reaches a typed callback.
C1_NoPartialRecord ==
    /\ \A i \in 1..Len(lastCall.calls) :
          LET c == lastCall.calls[i] IN
          c.callback \in TypedSlots =>
             /\ c.callback = KindOf(c.message)
             /\ FloatPrefix(c.message, Required(c.callback))
             /\ c.arg.timestamp = c.message.timeTag
             /\ FieldsOf(c.callback, c.arg)
                   = [k \in 1..Required(c.callback) |-> c.message.arguments[k].value]
    /\ \A i \in 1..Len(LastMessages) :
          LET m == LastMessages[i] IN
          (KindOf(m) # "none" /\ ~FloatPrefix(m, Required(KindOf(m))))
             => TypedCallsFor(m) = <<>>

\* A datagram in which one message was delivered as a record and another, whose
\* callback is registered, failed to be read and was not delivered.
C1_Witness ==
    /\ LastIsDatagram
    /\ \E i \in 1..Len(lastCall.calls) : lastCall.calls[i].callback \in TypedSlots
    /\ \E i \in 1..Len(LastMessages) :
          LET m == LastMessages[i] IN
          /\ KindOf(m) # "none"
          /\ Slot(KindOf(m)) # NULL
          /\ ~FloatPrefix(m, Required(KindOf(m)))
          /\ TypedCallsFor(m) = <<>>

\* C2, as claimed: a message with a known address and too few arguments
\* reaches no typed callback and, when an error callback is registered, causes
\* exactly one invocation of it, whatever is registered in the typed slots.
C2_ShortMessageAlwaysReported ==
    \A i \in 1..Len(LastMessages) :
       LET m == LastMessages[i] IN
       ShortOfArguments(m) =>
          /\ TypedCallsFor(m) = <<>>
          /\ receiveErrorCallback # NULL
                => Len(ErrorCallsFor(m)) = Occurrences(LastMessages, m)

\* C2, amended: a message with a known address and too few arguments reaches
\* no typed callback; it causes exactly one invocation of the error callback
\* when an error callback and the callback of its kind are both registered, and
\* no invocation at all when the callback of its kind is not registered.
C2_ShortMessageReportedIfWanted ==
    \A i \in 1..Len(LastMessages) :
       LET m == LastMessages[i] IN
       ShortOfArguments(m) =>
          /\ TypedCallsFor(m) = <<>>
          /\ (receiveErrorCallback # NULL /\ Slot(KindOf(m)) # NULL)
                => /\ Len(ErrorCallsFor(m)) = Occurrences(LastMessages, m)
                   /\ \A k \in 1..Len(ErrorCallsFor(m)) :
                         ErrorCallsFor(m)[k].fn = receiveErrorCallback
          /\ (receiveErrorCallback = NULL \/ Slot(KindOf(m)) = NULL)
                => CallsFor(m) = <<>>

\* A short message, its callback and the error callback registered, reported once.
C2_Witness ==
    \E i \in 1..Len(LastMessages) :
       LET m == LastMessages[i] IN
       /\ ShortOfArguments(m)
       /\ Slot(KindOf(m)) # NULL
       /\ receiveErrorCallback # NULL
       /\ Len(CallsFor(m)) = 1
       /\ CallsFor(m)[1].callback = "error"

\* C3: a message whose address matches no known address causes exactly one
\* invocation of the error callback, with the text that names the address, when
\* an error callback is registered, and no invocation of any callback otherwise;
\* it never reaches a typed callback.
C3_UnrecognisedAddress ==
    \A i \in 1..Len(LastMessages) :
       LET m == LastMessages[i] IN
       KindOf(m) = "none" =>
          CallsFor(m) =
             IF receiveErrorCallback = NULL THEN <<>>
             ELSE Times(Occurrences(LastMessages, m),
                        Invoke("error", receiveErrorCallback,
                               [text |-> "OSC address pattern not recognised: ",
                                address |-> m.oscAddressPattern], m))

\* A datagram of one message with an unknown address, reported to the error callback.
C3_Witness ==
    /\ LastIsDatagram
    /\ Len(LastMessages) = 1
    /\ KindOf(LastMessages[1]) = "none"
    /\ receiveErrorCallback # NULL
    /\ Len(lastCall.calls) = 1
    /\ lastCall.calls[1].arg.address = AddressBattery

\* C4: when the SLIP decoder reports that the encoded packet is too long for
\* its buffer while a byte is fed to NgimuReceiveProcessSerialByte, and an error
\* callback is registered, the error callback is invoked with that error.
C4_OverflowReported ==
    (/\ LastIsSerialByte
     /\ lastCall.oscError = OscErrorEncodedSlipPacketTooLong
     /\ receiveErrorCallback # NULL)
       => \E i \in 1..Len(lastCall.calls) :
             /\ lastCall.calls[i].callback = "error"
             /\ lastCall.calls[i].arg = OscErrorGetMessage(lastCall.oscError)

\* m is a /sensors message with exactly ten float32 arguments.
WellFormedSensors(m) ==
    /\ m.oscAddressPattern = AddressSensors
    /\ Len(m.arguments) = 10
    /\ FloatPrefix(m, 10)

\* The record the arguments of a /sensors message stand for.
SensorsRecord(m) ==
    [timestamp |-> m.timeTag,
     gyroscopeX |-> m.arguments[1].value,
     gyroscopeY |-> m.arguments[2].value,
     gyroscopeZ |-> m.arguments[3].value,
     accelerometerX |-> m.arguments[4].value,
     accelerometerY |-> m.arguments[5].value,
     accelerometerZ |-> m.arguments[6].value,
     magnetometerX |-> m.arguments[7].value,
     magnetometerY |-> m.arguments[8].value,
     magnetometerZ |-> m.arguments[9].value,
     barometer |-> m.arguments[10].value]

\* C5: a /sensors message with exactly ten float32 arguments, processed with
\* a sensors callback registered, gives that callback one record whose fields
\* gyroscope X, Y, Z, accelerometer X, Y, Z, magnetometer X, Y, Z and barometer
\* are arguments 1 to 10 in that order and whose timestamp is the time tag of
\* the message.
C5_SensorsRecord ==
    \A i \in 1..Len(LastMessages) :
       LET m == LastMessages[i] IN
       (WellFormedSensors(m) /\ sensorsCallback # NULL) =>
          CallsFor(m) = Times(Occurrences(LastMessages, m),
                              Invoke("sensors", sensorsCallback, SensorsRecord(m), m))

\* A /sensors message with time tag 2 delivered to the sensors callback.
C5_Witness ==
    /\ LastIsDatagram
    /\ lastCall.input = <<SensorsMessage(2)>>
    /\ sensorsCallback # NULL
    /\ Len(lastCall.calls) = 1
    /\ lastCall.calls[1].arg.timestamp = 2
    /\ lastCall.calls[1].arg.gyroscopeX = 1
    /\ lastCall.calls[1].arg.barometer = 10

\* C6: a datagram of one /quaternion message with four float32 arguments
\* w, x, y, z and time tag T, processed with a quaternion callback registered,
\* causes exactly one invocation: of the quaternion callback, with the record
\* {timestamp T, w, x, y, z}; the sensors, euler and error callbacks are not
\* invoked.
C6_QuaternionRecord ==
    (/\ LastIsDatagram
     /\ Len(lastCall.input) = 1
     /\ lastCall.input[1].kind = "message"
     /\ lastCall.input[1].oscAddressPattern = AddressQuaternion
     /\ Len(lastCall.input[1].arguments) = 4
     /\ FloatPrefix(lastCall.input[1], 4)
     /\ quaternionCallback # NULL)
       => LET m == lastCall.input[1] IN
          lastCall.calls =
             <<Invoke("quaternion", quaternionCallback,
                      [timestamp |-> m.timeTag,
                       w |-> m.arguments[1].value, x |-> m.arguments[2].value,
                       y |-> m.arguments[3].value, z |-> m.arguments[4].value], m)>>

\* The message (w = 1, x = 0, y = 0, z = 0) with time tag 2, delivered once.
C6_Witness ==
    /\ LastIsDatagram
    /\ lastCall.input = <<IdentityQuaternionMessage(2)>>
    /\ quaternionCallback = "A"
    /\ lastCall.calls =
          <<Invoke("quaternion", "A",
                   [timestamp |-> 2, w |-> 1, x |-> 0, y |-> 0, z |-> 0],
                   IdentityQuaternionMessage(2))>>

\* m has a known address and arguments its extractor can read.
WellFormed(m) == KindOf(m) # "none" /\ FloatPrefix(m, Required(KindOf(m)))

\* C7: registration is last write wins in every slot: a callback that is
\* invoked is the function the latest Set call of its slot registered, and a
\* message that can be delivered (or an unknown address to report) is given
\* exactly once to that function when the latest Set call registered one.
C7_LastWriteWins ==
    /\ \A i \in 1..Len(lastCall.calls) :
          LET c == lastCall.calls[i] IN
          c.fn # NULL /\ c.fn = registered[c.callback]
    /\ \A i \in 1..Len(LastMessages) :
          LET m == LastMessages[i] IN
          /\ (WellFormed(m) /\ registered[KindOf(m)] # NULL)
                => CallsFor(m) =
                      Times(Occurrences(LastMessages, m),
                            Invoke(KindOf(m), registered[KindOf(m)],
                                   CallsFor(m)[1].arg, m))
          /\ (KindOf(m) = "none" /\ registered.error # NULL)
                => /\ Len(CallsFor(m)) = Occurrences(LastMessages, m)
                   /\ CallsFor(m)[1].fn = registered.error

\* Function B registered in the sensors slot in the place of function A, and a
\* /sensors message delivered to B.
C7_Witness ==
    /\ "sensors" \in replaced
    /\ registered.sensors = "B"
    /\ LastIsDatagram
    /\ \E i \in 1..Len(lastCall.calls) :
          lastCall.calls[i].callback = "sensors" /\ lastCall.calls[i].fn = "B"

\* The SLIP encoding of a packet: END and ESC inside the packet are escaped,
\* and END closes the frame.
RECURSIVE SlipEncode(_)
SlipEncode(packet) ==
    IF packet = <<>> THEN <<SLIP_END>>
    ELSE (IF Head(packet) = SLIP_END THEN <<SLIP_ESC, SLIP_ESC_END>>
          ELSE IF Head(packet) = SLIP_ESC THEN <<SLIP_ESC, SLIP_ESC_ESC>>
          ELSE <<Head(packet)>>) \o SlipEncode(Tail(packet))

SerialMessages == {b \in SerialBytes : b.kind = "message"}

\* The packets of one message or more whose frame the decoder's buffer holds.
ValidPackets == UNION {[1..n -> SerialMessages] : n \in 1..(DecoderBufferSize - 2)}

\* C8: once NgimuReceiveInitialise has been called, the byte that ends the
\* frame of a valid packet, the frame having been fed one byte per call,
\* invokes the callbacks that NgimuReceiveProcessUdpPacket invokes for the
\* packet with the same registrations; the bytes before it invoke none.
C8_Reassembly ==
    LastIsSerialByte =>
       /\ lastCall.input # <<SLIP_END>> => lastCall.calls = <<>>
       /\ \A packet \in ValidPackets :
             (lastCall.frame = SlipEncode(packet) /\ oscSlipDecoder.processPacket # NULL)
                => lastCall.calls = ProcessUdpPacket(packet).calls

\* The frame of a packet of two messages completed: the first delivered to
\* the quaternion callback, the second reported to the error callback.
C8_Witness ==
    /\ LastIsSerialByte
    /\ lastCall.frame = SlipEncode(<<QuaternionMessage(1), ShortQuaternionMessage>>)
    /\ Len(lastCall.calls) = 2
    /\ lastCall.calls[1].callback = "quaternion"
    /\ lastCall.calls[2].callback = "error"

\* C9: a datagram equal to the datagram before it, with no Set call between
\* the two, invokes the same callbacks with the same arguments in the same
\* order, whatever bytes were fed to the serial entry and whether or not
\* NgimuReceiveInitialise was called before or between them.
C9_SameDatagramSameCalls ==
    (LastIsDatagram /\ lastCall.repeated) => lastCall.calls = lastCall.before

\* A datagram of three messages fed a second time, NgimuReceiveInitialise
\* having been called.
C9_Witness ==
    /\ LastIsDatagram
    /\ lastCall.repeated
    /\ Len(lastCall.calls) = 3
    /\ lastCall.before = lastCall.calls
    /\ oscSlipDecoder.processPacket # NULL

\* A message of a datagram causes an invocation: a message that can be
\* delivered when the callback of its kind is registered; one that cannot be
\* read when that callback and the error callback are registered; one with an
\* unknown address when the error callback is registered.
CausesCall(m) ==
    IF KindOf(m) = "none" THEN receiveErrorCallback # NULL
    ELSE /\ Slot(KindOf(m)) # NULL
         /\ FloatPrefix(m, Required(KindOf(m))) \/ receiveErrorCallback # NULL

\* The callback that invocation is made through.
CalledFor(m) == IF WellFormed(m) THEN KindOf(m) ELSE "error"

\* C10: failures are per message: the invocations of a datagram are, in the
\* order of the messages, one invocation for each message that causes one: a
\* message that fails to be read costs one invocation of the error callback,
\* and the messages before and after it are routed and delivered all the same.
C10_FailuresPerMessage ==
    LastIsDatagram =>
       LET expected == SelectSeq(LastMessages, CausesCall) IN
       /\ Len(lastCall.calls) = Len(expected)
       /\ \A i \in 1..Len(expected) :
             /\ lastCall.calls[i].message = expected[i]
             /\ lastCall.calls[i].callback = CalledFor(expected[i])

\* A delivered message, a message that fails, a delivered message: three
\* invocations in that order.
C10_Witness ==
    /\ LastIsDatagram
    /\ lastCall.input = <<QuaternionMessage(1), ShortEulerMessage, QuaternionMessage(1)>>
    /\ Len(lastCall.calls) = 3
    /\ lastCall.calls[1].callback = "quaternion"
    /\ lastCall.calls[2].callback = "error"
    /\ lastCall.calls[3].callback = "quaternion"

\* A packet fails at packet level: it is empty, or part of its contents is no
\* OSC message.
PacketFails(packet) ==
    packet = <<>> \/ \E i \in 1..Len(packet) : packet[i].kind # "message"

\* The error the packet parser returns for a packet that fails.
PacketError(packet) ==
    IF packet = <<>> THEN OscErrorContentsEmpty ELSE OscErrorInvalidContents

\* The invocations of the latest call that report a failure of the packet as
\* a whole, not of one of its messages.
PacketReports ==
    LET OfPacket(c) == c.message = NoMessage IN SelectSeq(lastCall.calls, OfPacket)

\* The packets, valid or not, whose frame the decoder's buffer holds.
FramedPackets ==
    {packet \in UNION {[1..n -> SerialBytes] : n \in 0..(DecoderBufferSize - 2)} :
        Len(SlipEncode(packet)) < DecoderBufferSize}

\* The report of the failure of a packet.
PacketReport(packet) ==
    <<Invoke("error", receiveErrorCallback, OscErrorGetMessage(PacketError(packet)),
             NoMessage)>>

\* C11: a packet that fails at packet level, processed with an error callback
\* registered, is reported to the error callback exactly once, with the text of
\* the error the packet parser returned, both when it is a datagram given to
\* NgimuReceiveProcessUdpPacket and when it is the packet of a frame completed
\* by NgimuReceiveProcessSerialByte.
C11_PacketFailureReported ==
    /\ (LastIsDatagram /\ PacketFails(lastCall.input) /\ receiveErrorCallback # NULL)
          => PacketReports = PacketReport(lastCall.input)
    /\ \A packet \in FramedPackets :
          (/\ LastIsSerialByte
           /\ oscSlipDecoder.processPacket # NULL
           /\ lastCall.frame = SlipEncode(packet)
           /\ PacketFails(packet)
           /\ receiveErrorCallback # NULL)
             => PacketReports = PacketReport(packet)

\* The invocations of the error callback among calls.
ErrorCallsIn(calls) ==
    LET Error(c) == c.callback = "error" IN SelectSeq(calls, Error)

\* C12: processing one message invokes the error callback at most once,
\* whatever its address, its arguments and the registrations: every message of
\* the latest datagram was reported at most once for each time it occurs in the
\* datagram, and with the current registrations no message of any address and
\* argument list makes ProcessMessage invoke the error callback twice.
C12_OneReportPerMessage ==
    /\ \A i \in 1..Len(LastMessages) :
          Len(ErrorCallsFor(LastMessages[i]))
             <= Occurrences(LastMessages, LastMessages[i])
    /\ \A m \in Messages : Len(ErrorCallsIn(ProcessMessage(m.timeTag, m))) <= 1

\* A message with an unknown address, reported by ProcessAddress with the
\* text that names the address and not reported a second time by ProcessMessage.
C12_Witness ==
    /\ LastIsDatagram
    /\ lastCall.input = <<BatteryMessage>>
    /\ receiveErrorCallback # NULL
    /\ ErrorCallsFor(BatteryMessage)
          = <<Invoke("error", receiveErrorCallback,
                     NotRecognisedString(AddressBattery), BatteryMessage)>>

\* C13: an empty slot is not an error. With no callback registered for a
\* kind, a message addressed to that kind makes ProcessAddress return
\* OscErrorNone with the message's read position still at its first argument
\* and makes ProcessMessage invoke no callback, the error callback included,
\* whatever the arguments of the message are; and no message of the latest
\* datagram addressed to a kind with an empty slot caused an invocation.
C13_EmptySlotIsNoError ==
    /\ \A m \in Messages :
          (KindOf(m) # "none" /\ Slot(KindOf(m)) = NULL)
             => /\ ProcessAddress(m.timeTag, m) = ReturnAt(OscErrorNone, <<>>, 0)
                /\ ProcessMessage(m.timeTag, m) = <<>>
    /\ \A i \in 1..Len(LastMessages) :
          LET m == LastMessages[i] IN
          (KindOf(m) # "none" /\ Slot(KindOf(m)) = NULL) => CallsFor(m) = <<>>

\* A /sensors message with nine arguments, processed with an error callback
\* and a quaternion callback registered and no sensors callback: no invocation.
C13_Witness ==
    /\ LastIsDatagram
    /\ lastCall.input = <<ShortSensorsMessage>>
    /\ sensorsCallback = NULL
    /\ receiveErrorCallback # NULL
    /\ quaternionCallback # NULL
    /\ lastCall.calls = <<>>

\* The four slots, by name.
SlotsOf ==
    [error |-> receiveErrorCallback, sensors |-> sensorsCallback,
     quaternion |-> quaternionCallback, euler |-> eulerCallback]

\* The latest call was a call of a Set function.
LastIsSet == lastCall.op = "none"

\* C14: the four slots are independent. A call of a Set function, and any
\* step in which a slot changes, changes at most one slot, gives that slot the
\* argument of the call, and leaves the other three slots and the state of the
\* SLIP decoder (its buffer and its packet callback) as they were.
C14_SlotsIndependent ==
    [][(LastIsSet' \/ SlotsOf' # SlotsOf) =>
          /\ oscSlipDecoder' = oscSlipDecoder
          /\ Cardinality({k \in DOMAIN SlotsOf : SlotsOf'[k] # SlotsOf[k]}) <= 1
          /\ \A k \in DOMAIN SlotsOf :
                SlotsOf'[k] # SlotsOf[k] => SlotsOf'[k] = registered'[k]]_vars

\* A Set call made while the decoder held part of a frame: the buffer is as
\* it was, two slots hold a function and two are empty.
C14_Witness ==
    /\ LastIsSet
    /\ oscSlipDecoder.buffer = <<SLIP_ESC_END, SLIP_ESC_END>>
    /\ oscSlipDecoder.processPacket # NULL
    /\ sensorsCallback = "A"
    /\ eulerCallback = "A"
    /\ quaternionCallback = NULL
    /\ receiveErrorCallback = NULL

\* The record the arguments of a well formed message stand for.
RecordOf(m) ==
    CASE KindOf(m) = "sensors" -> SensorsRecord(m)
      [] KindOf(m) = "quaternion" ->
            [timestamp |-> m.timeTag, w |-> m.arguments[1].value,
             x |-> m.arguments[2].value, y |-> m.arguments[3].value,
             z |-> m.arguments[4].value]
      [] KindOf(m) = "euler" ->
            [timestamp |-> m.timeTag, roll |-> m.arguments[1].value,
             pitch |-> m.arguments[2].value, yaw |-> m.arguments[3].value]

\* The error of the first of the n arguments of m that cannot be read as a
\* float32.
ReadError(m, n) ==
    LET first == CHOOSE i \in 1..n :
                    /\ i > Len(m.arguments) \/ m.arguments[i].type # "f"
                    /\ \A j \in 1..(i - 1) : j <= Len(m.arguments) /\ m.arguments[j].type = "f"
    IN  IF first > Len(m.arguments) THEN OscErrorNoArgumentsAvailable
        ELSE OscErrorUnexpectedArgumentType

\* The invocations one message is due with the current registrations: its
\* record to the callback of its kind; a report of an unknown address or of
\* arguments that cannot be read to the error callback; none when the callback
\* concerned is not registered.
DueFor(m) ==
    IF KindOf(m) = "none"
    THEN IF receiveErrorCallback = NULL THEN <<>>
         ELSE <<Invoke("error", receiveErrorCallback,
                       [text |-> "OSC address pattern not recognised: ",
                        address |-> m.oscAddressPattern], m)>>
    ELSE IF Slot(KindOf(m)) = NULL THEN <<>>
    ELSE IF FloatPrefix(m, Required(KindOf(m)))
    THEN <<Invoke(KindOf(m), Slot(KindOf(m)), RecordOf(m), m)>>
    ELSE IF receiveErrorCallback = NULL THEN <<>>
    ELSE <<Invoke("error", receiveErrorCallback,
                  OscErrorGetMessage(ReadError(m, Required(KindOf(m)))), m)>>

\* The invocations the messages of a packet are due, in the order of the
\* messages.
RECURSIVE Due(_)
Due(messages) ==
    IF messages = <<>> THEN <<>> ELSE DueFor(Head(messages)) \o Due(Tail(messages))

\* C15: bad input never disables the pipeline. Whatever was fed before, a
\* call of NgimuReceiveProcessSerialByte that ends a frame or makes the decoder
\* return an error leaves the decoder's buffer empty; the byte that ends the
\* frame of a packet of messages invokes, once NgimuReceiveInitialise has been
\* called, exactly the callbacks the messages are due with the registrations
\* alone; and so does a datagram.
C15_BadInputNeverDisables ==
    /\ (LastIsSerialByte
        /\ (lastCall.input = <<SLIP_END>> \/ lastCall.oscError # OscErrorNone))
          => oscSlipDecoder.buffer = <<>>
    /\ \A packet \in ValidPackets :
          (/\ LastIsSerialByte
           /\ oscSlipDecoder.processPacket # NULL
           /\ lastCall.frame = SlipEncode(packet))
             => lastCall.calls = Due(packet)
    /\ LastIsDatagram => lastCall.calls = Due(LastMessages)

\* Bytes that caused an error, then the frame of a /quaternion message,
\* delivered to the quaternion callback.
C15_Witness ==
    /\ badStream
    /\ LastIsSerialByte
    /\ lastCall.frame = SlipEncode(<<QuaternionMessage(1)>>)
    /\ lastCall.oscError = OscErrorNone
    /\ lastCall.calls =
          <<Invoke("quaternion", "A",
                   [timestamp |-> 1, w |-> 21, x |-> 22, y |-> 23, z |-> 24],
                   QuaternionMessage(1))>>

\* The known addresses in the order in which the router tries them.
KnownOrder == <<"sensors", "quaternion", "euler">>

AddressOf(kind) ==
    CASE kind = "sensors" -> AddressSensors
      [] kind = "quaternion" -> AddressQuaternion
      [] kind = "euler" -> AddressEuler

\* The positions in KnownOrder of the known addresses the pattern of m matches.
Matching(m) ==
    {k \in 1..Len(KnownOrder) : OscAddressMatch(m.oscAddressPattern, AddressOf(KnownOrder[k]))}

\* The first of them.
FirstMatch(m) == KnownOrder[CHOOSE k \in Matching(m) : \A j \in Matching(m) : k <= j]

\* The extractor of a kind.
Extractor(kind, oscTimeTag, oscMessage) ==
    CASE kind = "sensors" -> ProcessSensors(oscTimeTag, oscMessage)
      [] kind = "quaternion" -> ProcessQuaternion(oscTimeTag, oscMessage)
      [] kind = "euler" -> ProcessEuler(oscTimeTag, oscMessage)

\* C16: the router tries /sensors, /quaternion, /euler in that order and
\* gives the message to the extractor of the first address its pattern matches,
\* and to no other: the result of ProcessAddress is that extractor's result,
\* every record delivered went to the callback of the first match, and a
\* message is delivered to at most one typed callback, also when its pattern
\* matches more than one known address.
C16_FirstMatchOnly ==
    /\ \A m \in Messages :
          Matching(m) # {}
             => ProcessAddress(m.timeTag, m) = Extractor(FirstMatch(m), m.timeTag, m)
    /\ \A i \in 1..Len(lastCall.calls) :
          LET c == lastCall.calls[i] IN
          c.callback \in TypedSlots => c.callback = FirstMatch(c.message)
    /\ \A i \in 1..Len(LastMessages) :
          Len(TypedCallsFor(LastMessages[i])) <= Occurrences(LastMessages, LastMessages[i])

\* A message with the pattern that matches all three known addresses, with
\* callbacks registered for all three: one record, to the sensors callback.
C16_Witness ==
    /\ LastIsDatagram
    /\ Len(LastMessages) = 1
    /\ LastMessages[1].oscAddressPattern = AddressAny
    /\ Cardinality(Matching(LastMessages[1])) = 3
    /\ sensorsCallback # NULL /\ quaternionCallback # NULL /\ eulerCallback # NULL
    /\ Len(lastCall.calls) = 1
    /\ lastCall.calls[1].callback = "sensors"

\* m has a known address, float32 arguments for every field of its record,
\* and arguments after them.
HasExtraArguments(m) ==
    /\ KindOf(m) # "none"
    /\ FloatPrefix(m, Required(KindOf(m)))
    /\ Len(m.arguments) > Required(KindOf(m))

\* C17: arguments after those a record is made of are ignored, not refused.
\* A message with a known address whose first 10, 4 or 3 arguments are float32
\* values, followed by further arguments of any type, is delivered to the
\* callback of its kind, when one is registered, as exactly one record made of
\* those first arguments; the arguments after them are not read, and the error
\* callback is not invoked for the message.
C17_ExtraArgumentsIgnored ==
    /\ \A m \in Messages :
          (HasExtraArguments(m) /\ Slot(KindOf(m)) # NULL)
             => /\ ProcessAddress(m.timeTag, m).oscError = OscErrorNone
                /\ ProcessAddress(m.timeTag, m).argumentIndex = Required(KindOf(m))
    /\ \A i \in 1..Len(LastMessages) :
          LET m == LastMessages[i] IN
          HasExtraArguments(m) =>
             /\ ErrorCallsFor(m) = <<>>
             /\ CallsFor(m) =
                   IF Slot(KindOf(m)) = NULL THEN <<>>
                   ELSE Times(Occurrences(LastMessages, m),
                              Invoke(KindOf(m), Slot(KindOf(m)),
                                     RecordOf(m), m))

\* A /quaternion message with four float32 arguments and a string after
\* them, processed with the quaternion and error callbacks registered: one
\* record, made of the four.
C17_Witness ==
    /\ LastIsDatagram
    /\ lastCall.input = <<LongQuaternionMessage>>
    /\ receiveErrorCallback # NULL
    /\ quaternionCallback # NULL
    /\ Len(lastCall.calls) = 1
    /\ lastCall.calls[1].callback = "quaternion"
    /\ FieldsOf("quaternion", lastCall.calls[1].arg) = <<21, 22, 23, 24>>

\* a is b with some of its elements left out.
RECURSIVE IsSubsequence(_, _)
IsSubsequence(a, b) ==
    IF a = <<>> THEN TRUE
    ELSE IF b = <<>> THEN FALSE
    ELSE IF Head(a) = Head(b) THEN IsSubsequence(Tail(a), Tail(b))
    ELSE IsSubsequence(a, Tail(b))

IsMessage(symbol) == symbol.kind = "message"

\* The messages the input of the latest call brought to an end: those of the
\* datagram, or those of the frame the byte closed; none for any other call.
SourceMessages ==
    IF LastIsDatagram THEN LastMessages
    ELSE IF LastIsSerialByte /\ lastCall.input = <<SLIP_END>>
    THEN SelectSeq(lastCall.frame, IsMessage)
    ELSE <<>>

\* The messages for which the latest call invoked a callback, one for each
\* invocation, in the order of the invocations.
CallMessages ==
    LET Of(c) == c.message # NoMessage
        calls == SelectSeq(lastCall.calls, Of)
    IN  [i \in 1..Len(calls) |-> calls[i].message]

HasDue(m) == DueFor(m) # <<>>

\* C18: dispatch is synchronous and ordered. The invocations of a call are
\* for messages of the datagram or of the frame that call completed, in the
\* order in which the messages appear in it: a call of NgimuReceiveInitialise or
\* of a Set function and a byte that does not end a frame invoke nothing, so
\* nothing is kept for a later call; and every message of a datagram, or of the
\* frame of a packet of messages, that is due an invocation gets it in the call
\* that processes the packet.
C18_SynchronousOrdered ==
    /\ IsSubsequence(CallMessages, SourceMessages)
    /\ SourceMessages = <<>> => CallMessages = <<>>
    /\ LastIsDatagram => CallMessages = SelectSeq(LastMessages, HasDue)
    /\ \A packet \in ValidPackets :
          (/\ LastIsSerialByte
           /\ oscSlipDecoder.processPacket # NULL
           /\ lastCall.frame = SlipEncode(packet))
             => CallMessages = SelectSeq(packet, HasDue)

\* The frame of a packet of a message that cannot be read and a message that
\* can: the report of the first, then the record of the second, in the call
\* that fed the END byte.
C18_Witness ==
    /\ LastIsSerialByte
    /\ lastCall.input = <<SLIP_END>>
    /\ lastCall.frame = SlipEncode(<<ShortQuaternionMessage, QuaternionMessage(1)>>)
    /\ Len(lastCall.calls) = 2
    /\ lastCall.calls[1].callback = "error"
    /\ lastCall.calls[1].message = ShortQuaternionMessage
    /\ lastCall.calls[2].callback = "quaternion"
    /\ lastCall.calls[2].message = QuaternionMessage(1)

LastIsInitialise == lastCall.op = "NgimuReceiveInitialise"

\* C19: NgimuReceiveInitialise resets the SLIP decoder and sets its packet
\* callback, and nothing else: a call of it leaves the decoder with an empty
\* buffer and ProcessPacket as packet callback and leaves the four slots as they
\* were; so every callback invoked, before or after a call of it, is the
\* function the latest Set call of its slot registered.
C19_InitialiseKeepsCallbacks ==
    /\ [][LastIsInitialise' =>
             /\ oscSlipDecoder' = [buffer |-> <<>>, processPacket |-> "ProcessPacket"]
             /\ SlotsOf' = SlotsOf]_vars
    /\ [](\A i \in 1..Len(lastCall.calls) :
             /\ lastCall.calls[i].fn # NULL
             /\ lastCall.calls[i].fn = registered[lastCall.calls[i].callback])

\* NgimuReceiveInitialise called with a function registered in every slot,
\* after a datagram was delivered to them: the functions are still registered.
C19_Witness ==
    /\ LastIsInitialise
    /\ \A k \in DOMAIN SlotsOf : SlotsOf[k] = "A" /\ registered[k] = "A"
    /\ udpHistory.known
    /\ udpHistory.calls # <<>>
    /\ oscSlipDecoder = [buffer |-> <<>>, processPacket |-> "ProcessPacket"]

=============================================================================
